---- MODULE Spec2Model ----
(***************************************************************************)
(* JobSpy (Go port): the multi-source aggregation engine.                  *)
(*                                                                         *)
(* ScrapeJobs resolves the requested site list, fills in defaults, builds  *)
(* the ScraperInput and the scrapers map, launches one goroutine per       *)
(* resolved site that has a scraper, waits for all of them, drains the     *)
(* results and errors channels and returns.  Each goroutine runs           *)
(* IndeedScraper.Scrape: a pagination walk over scrapePage with an         *)
(* adapter-held seenURLs set, followed by offset/limit windowing.          *)
(*                                                                         *)
(* Strings the code inspects character by character (site names, proxy    *)
(* entries) are sequences of one-character strings.  A job posting is     *)
(* identified by its job key: JobURL = baseURL + "/viewjob?jk=" + key is   *)
(* injective in the key for the fixed baseURL of one run.                  *)
(*                                                                         *)
(* Four specifications share the variables.  Spec is ScrapeJobs over       *)
(* inputs that leave the plain request in one group of fields.  RotatorSpec*)
(* is ScrapeJobs with the indeed site listed more than once and a proxy    *)
(* list.  FairSpec is ScrapeJobs under weak fairness of its steps.         *)
(* PureSpec calls the library functions (MapStringToSite, parseSites,      *)
(* Location.String, parseSalary, ExtractEmailsFromText,                    *)
(* JobTypeFromString) on their own, one call per behaviour, and a proxy     *)
(* rotator or an HTTP client of its own through a bounded series of calls. *)
(***************************************************************************)
EXTENDS Integers, Sequences, FiniteSets, TLC

\* ------------------------------------------------------------------ bounds
MaxSites == 2       \* longest requested site list
NumJobs == 3        \* distinct job keys the source can serve
MaxPageLen == 2     \* most job cards on one page
MaxWanted == 2      \* largest explicit ResultsWanted
MaxOffset == 1      \* largest explicit Offset
MaxProxies == 2     \* longest proxy list
MaxNames == 3       \* longest list of names given to parseSites on its own
MaxPieces == 3      \* most pieces of a text given to a text function
MaxCalls == 4       \* most calls on one rotator or one HTTP client

\* ------------------------------------------------------- program constants
DefaultResults == 15
DefaultOffset == 0
DefaultTimeout == 60

\* ----------------------------------------------------------------- helpers
Nil == <<>>
Some(v) == <<v>>
IsNil(p) == p = Nil
Deref(p) == p[1]

SeqsUpTo(S, n) == UNION {[1..k -> S] : k \in 0..n}

Min(a, b) == IF a < b THEN a ELSE b

RECURSIVE Flatten(_)
Flatten(ss) == IF ss = <<>> THEN <<>> ELSE Head(ss) \o Flatten(Tail(ss))

Range(s) == {s[i] : i \in DOMAIN s}

\* strings.HasPrefix
HasPrefix(s, p) == Len(s) >= Len(p) /\ SubSeq(s, 1, Len(p)) = p

Lowers == <<"a","b","c","d","e","f","g","h","i","j","k","l","m",
            "n","o","p","q","r","s","t","u","v","w","x","y","z">>
Uppers == <<"A","B","C","D","E","F","G","H","I","J","K","L","M",
            "N","O","P","Q","R","S","T","U","V","W","X","Y","Z">>
Digits == {"0","1","2","3","4","5","6","7","8","9"}

\* the letters with an accent that the code's markers hold, as one character
\* each: i-acute of "periodointegral", a-acute of "practicas"
Accented == {"i-acute", "a-acute"}

IsLetter(c) == c \in Range(Lowers) \cup Range(Uppers) \cup Accented
IsDigit(c) == c \in Digits

UpperToLower == [c \in Range(Uppers) |-> Lowers[CHOOSE k \in DOMAIN Uppers : Uppers[k] = c]]
LowerToUpper == [c \in Range(Lowers) |-> Uppers[CHOOSE k \in DOMAIN Lowers : Lowers[k] = c]]

\* strings.ToLower
ToLower(s) == [i \in DOMAIN s |-> IF s[i] \in DOMAIN UpperToLower
                                   THEN UpperToLower[s[i]] ELSE s[i]]

\* strings.ToUpper
ToUpper(s) == [i \in DOMAIN s |-> IF s[i] \in DOMAIN LowerToUpper
                                   THEN LowerToUpper[s[i]] ELSE s[i]]

\* strings.Title: the letter that begins a word is upper-cased; a word begins
\* at the start and after every character that is no letter, digit or "_"
IsSeparator(c) == ~(IsLetter(c) \/ IsDigit(c) \/ c = "_")
Title(s) == [i \in DOMAIN s |->
               IF (i = 1 \/ IsSeparator(s[i - 1])) /\ s[i] \in DOMAIN LowerToUpper
               THEN LowerToUpper[s[i]] ELSE s[i]]

\* strings.Contains
Contains(s, sub) == \E i \in 0..(Len(s) - Len(sub)) : SubSeq(s, i + 1, i + Len(sub)) = sub

\* strings.Join
RECURSIVE Join(_, _)
Join(parts, sep) ==
  IF parts = <<>> THEN <<>>
  ELSE IF Len(parts) = 1 THEN Head(parts)
  ELSE Head(parts) \o sep \o Join(Tail(parts), sep)

\* a Go slice: nil, or a backing list
NilSlice == [isNil |-> TRUE, elems |-> <<>>]
Slice(elems) == [isNil |-> FALSE, elems |-> elems]

\* ------------------------------------------------------------------- sites
SiteLinkedIn == <<"l","i","n","k","e","d","i","n">>
SiteIndeed == <<"i","n","d","e","e","d">>
SiteZipRecruiter == <<"z","i","p","_","r","e","c","r","u","i","t","e","r">>
SiteGlassdoor == <<"g","l","a","s","s","d","o","o","r">>
SiteGoogle == <<"g","o","o","g","l","e">>
SiteBayt == <<"b","a","y","t">>
SiteNaukri == <<"n","a","u","k","r","i">>
SiteBDJobs == <<"b","d","j","o","b","s">>

NoErr == <<>>

\* the switch of MapStringToSite over the lower-cased name l; the error holds
\* the name s as it was given
SiteSwitch(l, s) ==
  CASE l = SiteLinkedIn -> [site |-> SiteLinkedIn, err |-> NoErr]
    [] l = SiteIndeed -> [site |-> SiteIndeed, err |-> NoErr]
    [] l = SiteZipRecruiter \/ l = <<"z","i","p","r","e","c","r","u","i","t","e","r">>
         -> [site |-> SiteZipRecruiter, err |-> NoErr]
    [] l = SiteGlassdoor -> [site |-> SiteGlassdoor, err |-> NoErr]
    [] l = SiteGoogle -> [site |-> SiteGoogle, err |-> NoErr]
    [] l = SiteBayt -> [site |-> SiteBayt, err |-> NoErr]
    [] l = SiteNaukri -> [site |-> SiteNaukri, err |-> NoErr]
    [] l = SiteBDJobs -> [site |-> SiteBDJobs, err |-> NoErr]
    [] OTHER -> [site |-> <<>>, err |-> <<"unknown site: ", s>>]

\* mutant of MapStringToSite: the name is compared as it was given
MapStringToSiteCaseSensitive(s) == SiteSwitch(s, s)

\* MapStringToSite: (Site, error)
MapStringToSite(s) == SiteSwitch(ToLower(s), s)

\* mutant of parseNames: an unrecognized name is skipped instead of reported
RECURSIVE parseNamesSkipUnknown(_, _)
parseNamesSkipUnknown(names, acc) ==
  IF names = <<>> THEN [sites |-> acc, err |-> NoErr]
  ELSE LET r == MapStringToSite(Head(names)) IN
       IF r.err # NoErr THEN parseNamesSkipUnknown(Tail(names), acc)
       ELSE parseNamesSkipUnknown(Tail(names), Append(acc, r.site))

\* the []string case of parseSites: stop at the first name that fails
RECURSIVE parseNames(_, _)
parseNames(names, acc) ==
  IF names = <<>> THEN [sites |-> acc, err |-> NoErr]
  ELSE LET r == MapStringToSite(Head(names)) IN
       IF r.err # NoErr THEN [sites |-> <<>>, err |-> r.err]
       ELSE parseNames(Tail(names), Append(acc, r.site))

\* parseSites: ([]Site, error); siteNames is the interface{} value, tagged
\* with its dynamic type
parseSites(siteNames) ==
  CASE siteNames.type = "nil" ->
         [sites |-> <<SiteIndeed, SiteLinkedIn, SiteGlassdoor, SiteGoogle>>, err |-> NoErr]
    [] siteNames.type = "string" ->
         LET r == MapStringToSite(siteNames.val) IN
         IF r.err # NoErr THEN [sites |-> <<>>, err |-> r.err]
         ELSE [sites |-> <<r.site>>, err |-> NoErr]
    [] siteNames.type = "[]string" -> parseNames(siteNames.val, <<>>)
    [] siteNames.type = "Site" -> [sites |-> <<siteNames.val>>, err |-> NoErr]
    [] siteNames.type = "[]Site" -> [sites |-> siteNames.val, err |-> NoErr]
    [] OTHER -> [sites |-> <<>>, err |-> <<"unsupported site name type: ", siteNames.type>>]

\* ----------------------------------------------------------------- proxies
SchemeHTTP == <<"h","t","t","p",":","/","/">>
SchemeHTTPS == <<"h","t","t","p","s",":","/","/">>
SchemeSOCKS5 == <<"s","o","c","k","s","5",":","/","/">>

HasScheme(proxy) ==
  HasPrefix(proxy, SchemeHTTP) \/ HasPrefix(proxy, SchemeHTTPS) \/ HasPrefix(proxy, SchemeSOCKS5)

\* FormatProxy
FormatProxy(proxy) == IF ~HasScheme(proxy) THEN SchemeHTTP \o proxy ELSE proxy


\* ------------------------------------------------ models.go: JobType, Country
JobTypeFullTime == "fulltime"
JobTypePartTime == "parttime"
JobTypeContract == "contract"
JobTypeTemporary == "temporary"
JobTypeInternship == "internship"

ContainsAny(s, subs) == \E sub \in subs : Contains(s, sub)

FullTimeMarkers == {<<"f","u","l","l","t","i","m","e">>, <<"f","u","l","l","-","t","i","m","e">>, <<"p","e","r","i-acute","o","d","o","i","n","t","e","g","r","a","l">>}
PartTimeMarkers == {<<"p","a","r","t","t","i","m","e">>, <<"p","a","r","t","-","t","i","m","e">>, <<"t","e","i","l","z","e","i","t">>}
ContractMarkers == {<<"c","o","n","t","r","a","c","t">>, <<"c","o","n","t","r","a","c","t","o","r">>}
TemporaryMarkers == {<<"t","e","m","p","o","r","a","r","y">>}
InternshipMarkers == {<<"i","n","t","e","r","n","s","h","i","p">>, <<"p","r","a-acute","c","t","i","c","a","s">>}

\* the switch of JobTypeFromString: the first case that matches is taken
MatchJobType(l) ==
  IF ContainsAny(l, FullTimeMarkers) THEN Some(JobTypeFullTime)
  ELSE IF ContainsAny(l, PartTimeMarkers) THEN Some(JobTypePartTime)
  ELSE IF ContainsAny(l, ContractMarkers) THEN Some(JobTypeContract)
  ELSE IF ContainsAny(l, TemporaryMarkers) THEN Some(JobTypeTemporary)
  ELSE IF ContainsAny(l, InternshipMarkers) THEN Some(JobTypeInternship)
  ELSE Nil

\* mutant of JobTypeFromString: the match is on the string as given
JobTypeFromStringCaseSensitive(s) == MatchJobType(s)

\* JobTypeFromString: *JobType
JobTypeFromString(s) == MatchJobType(ToLower(s))

CountryUSA == <<"u","s","a">>
CountryCanada == <<"c","a","n","a","d","a">>
CountryUK == <<"u","k">>
CountryGermany == <<"g","e","r","m","a","n","y">>
CountryFrance == <<"f","r","a","n","c","e">>

\* mutant of CountryFromString: an unrecognized name falls back to the USA
CountryFromStringDefaultUSA(s) ==
  LET l == ToLower(s) IN
  CASE l \in {<<"c","a","n","a","d","a">>, <<"c","a">>} -> Some(CountryCanada)
    [] l \in {<<"u","k">>, <<"u","n","i","t","e","d"," ","k","i","n","g","d","o","m">>, <<"g","b">>} -> Some(CountryUK)
    [] l \in {<<"g","e","r","m","a","n","y">>, <<"d","e">>} -> Some(CountryGermany)
    [] l \in {<<"f","r","a","n","c","e">>, <<"f","r">>} -> Some(CountryFrance)
    [] OTHER -> Some(CountryUSA)

\* CountryFromString: *Country
CountryFromString(s) ==
  LET l == ToLower(s) IN
  CASE l \in {<<"u","s","a">>, <<"u","s">>, <<"u","n","i","t","e","d"," ","s","t","a","t","e","s">>} -> Some(CountryUSA)
    [] l \in {<<"c","a","n","a","d","a">>, <<"c","a">>} -> Some(CountryCanada)
    [] l \in {<<"u","k">>, <<"u","n","i","t","e","d"," ","k","i","n","g","d","o","m">>, <<"g","b">>} -> Some(CountryUK)
    [] l \in {<<"g","e","r","m","a","n","y">>, <<"d","e">>} -> Some(CountryGermany)
    [] l \in {<<"f","r","a","n","c","e">>, <<"f","r">>} -> Some(CountryFrance)
    [] OTHER -> Nil

\* IndeedScraper.getCountryDomain: (domain, API country code)
getCountryDomain(country) ==
  IF IsNil(country) THEN [domain |-> "www", code |-> "us"]
  ELSE CASE Deref(country) = CountryUSA -> [domain |-> "www", code |-> "us"]
         [] Deref(country) = CountryCanada -> [domain |-> "ca", code |-> "ca"]
         [] Deref(country) = CountryUK -> [domain |-> "uk", code |-> "gb"]
         [] Deref(country) = CountryGermany -> [domain |-> "de", code |-> "de"]
         [] Deref(country) = CountryFrance -> [domain |-> "fr", code |-> "fr"]
         [] OTHER -> [domain |-> "www", code |-> "us"]

\* mutant of CountryToken: every country is title-cased
CountryTokenTitleOnly(c) == Title(c)

\* Location.String lines 100-107: the country as it is rendered
CountryToken(c) == IF c = <<"u","s","a">> \/ c = <<"u","k">> THEN ToUpper(c) ELSE Title(c)

\* Location.String; l is the Location the receiver points to
LocationString(l) ==
  LET city == IF ~IsNil(l.City) THEN <<Deref(l.City)>> ELSE <<>>
      state == IF ~IsNil(l.State) THEN <<Deref(l.State)>> ELSE <<>>
      country == IF ~IsNil(l.Country) THEN <<CountryToken(Deref(l.Country))>> ELSE <<>>
  IN Join(city \o state \o country, <<","," ">>)

\* locationString of the command-line tool: "" for a nil *Location
locationString(loc) == IF IsNil(loc) THEN <<>> ELSE LocationString(Deref(loc))

\* ------------------------------------------------- utils.go: email extraction
IsAsciiLetter(c) == c \in Range(Lowers) \cup Range(Uppers)

\* the character classes of the email pattern
\* [a-zA-Z0-9._%+-]+@[a-zA-Z0-9.-]+\.[a-zA-Z]{2,}
LocalClass(c) == IsAsciiLetter(c) \/ IsDigit(c) \/ c \in {".", "_", "%", "+", "-"}
DomainClass(c) == IsAsciiLetter(c) \/ IsDigit(c) \/ c \in {".", "-"}

\* the last index of the longest run of class characters that starts at i
\* (i - 1 when there is none); cls is the set of indexes holding the class
RECURSIVE RunEnd(_, _, _)
RunEnd(n, cls, i) == IF i <= n /\ i \in cls THEN RunEnd(n, cls, i + 1) ELSE i - 1

\* the end of the pattern's match that starts at i, 0 when there is none:
\* the local part is the run up to the "@"; the domain is the longest prefix
\* of the domain-class run that is followed by "." and two letters; the last
\* part takes every letter that follows
EmailEndAt(text, i) ==
  LET n == Len(text)
      L == {k \in 1..n : LocalClass(text[k])}
      D == {k \in 1..n : DomainClass(text[k])}
      A == {k \in 1..n : IsAsciiLetter(text[k])}
      e == RunEnd(n, L, i)
      d0 == e + 2
      de == RunEnd(n, D, d0)
      ks == {k \in d0..de : k + 3 <= n /\ text[k + 1] = "." /\ k + 2 \in A /\ k + 3 \in A}
  IN IF e < i \/ e + 1 > n THEN 0
     ELSE IF text[e + 1] # "@" THEN 0
     ELSE IF ks = {} THEN 0
     ELSE LET k == CHOOSE x \in ks : \A y \in ks : y <= x IN RunEnd(n, A, k + 2)

\* regexp.FindAllString(text, -1): the leftmost matches, none overlapping
RECURSIVE FindAllEmails(_, _)
FindAllEmails(text, i) ==
  IF i > Len(text) THEN <<>>
  ELSE LET e == EmailEndAt(text, i) IN
       IF e = 0 THEN FindAllEmails(text, i + 1)
       ELSE <<SubSeq(text, i, e)>> \o FindAllEmails(text, e + 1)

\* mutant of ExtractEmailsFromText: the list is returned as it is, empty or not
ExtractEmailsAlwaysList(text) == Slice(FindAllEmails(text, 1))

\* ExtractEmailsFromText: []string
ExtractEmailsFromText(text) ==
  IF text = <<>> THEN NilSlice
  ELSE LET emails == FindAllEmails(text, 1) IN
       IF Len(emails) = 0 THEN NilSlice ELSE Slice(emails)

\* ------------------------------------------- indeed_scraper.go: parseSalary
IntervalYearly == "yearly"
IntervalMonthly == "monthly"
IntervalHourly == "hourly"

NumClass(c) == IsDigit(c) \/ c = ","

\* the match of \$?([\d,]+(?:\.\d{2})?) that starts at i: the bounds of its
\* group and its end; end 0 when there is none
AmountAt(text, i) ==
  LET n == Len(text)
      N == {k \in 1..n : NumClass(text[k])}
      p == IF text[i] = "$" THEN i + 1 ELSE i
      r == RunEnd(n, N, p)
      cents == r + 3 <= n /\ text[r + 1] = "." /\ IsDigit(text[r + 2]) /\ IsDigit(text[r + 3])
  IN IF r < p THEN [from |-> 0, end |-> 0]
     ELSE [from |-> p, end |-> IF cents THEN r + 3 ELSE r]

\* regexp.FindAllStringSubmatch(salaryText, -1): the groups of the matches
RECURSIVE FindAllAmounts(_, _)
FindAllAmounts(text, i) ==
  IF i > Len(text) THEN <<>>
  ELSE LET m == AmountAt(text, i) IN
       IF m.end = 0 THEN FindAllAmounts(text, i + 1)
       ELSE <<SubSeq(text, m.from, m.end)>> \o FindAllAmounts(text, m.end + 1)

\* strings.Replace(s, ",", "", -1)
RemoveCommas(s) == SelectSeq(s, LAMBDA c : c # ",")

DigitValue(c) ==
  CASE c = "0" -> 0 [] c = "1" -> 1 [] c = "2" -> 2 [] c = "3" -> 3 [] c = "4" -> 4
    [] c = "5" -> 5 [] c = "6" -> 6 [] c = "7" -> 7 [] c = "8" -> 8 [] c = "9" -> 9

RECURSIVE DigitsValue(_)
DigitsValue(ds) ==
  IF ds = <<>> THEN 0 ELSE 10 * DigitsValue(SubSeq(ds, 1, Len(ds) - 1)) + DigitValue(ds[Len(ds)])

\* strconv.ParseFloat on digits with an optional "." and two digits: the
\* value as its whole part and its hundredths, or an error when there is no
\* digit at all
ParseFloat(s) ==
  LET dot == {k \in DOMAIN s : s[k] = "."}
      whole == IF dot = {} THEN s ELSE SubSeq(s, 1, Len(s) - 3)
      frac == IF dot = {} THEN <<>> ELSE SubSeq(s, Len(s) - 1, Len(s))
  IN IF s = <<>> THEN [ok |-> FALSE, value |-> [whole |-> 0, hundredths |-> 0]]
     ELSE [ok |-> TRUE, value |-> [whole |-> DigitsValue(whole), hundredths |-> DigitsValue(frac)]]

\* parseSalary lines 286-293: the amounts that parse, in order
RECURSIVE ParseAmounts(_)
ParseAmounts(groups) ==
  IF groups = <<>> THEN <<>>
  ELSE LET a == ParseFloat(RemoveCommas(Head(groups))) IN
       (IF a.ok THEN <<a.value>> ELSE <<>>) \o ParseAmounts(Tail(groups))

\* parseSalary lines 303-313
SalaryInterval(salaryText) ==
  LET salaryLower == ToLower(salaryText) IN
  IF Contains(salaryLower, <<"y","e","a","r">>) \/ Contains(salaryLower, <<"a","n","n","u","a","l">>) THEN Some(IntervalYearly)
  ELSE IF Contains(salaryLower, <<"h","o","u","r">>) THEN Some(IntervalHourly)
  ELSE IF Contains(salaryLower, <<"m","o","n","t","h">>) THEN Some(IntervalMonthly)
  ELSE Nil

\* IndeedScraper.parseSalary: *Compensation
parseSalary(salaryText) ==
  IF salaryText = <<>> THEN Nil
  ELSE LET matches == FindAllAmounts(salaryText, 1)
           amounts == ParseAmounts(matches)
       IN IF Len(matches) = 0 THEN Nil
          ELSE Some([Currency |-> Some("USD"),
                     MinAmount |-> IF Len(amounts) >= 1 THEN Some(amounts[1]) ELSE Nil,
                     MaxAmount |-> IF Len(amounts) = 1 THEN Some(amounts[1])
                                   ELSE IF Len(amounts) >= 2 THEN Some(amounts[2]) ELSE Nil,
                     Interval |-> SalaryInterval(salaryText)])

\* ------------------------------------------------------------------ models
FormatMarkdown == "markdown"
FormatHTML == "html"
FormatPlain == "plain"

\* NewScraperInput: a ScraperInput with default values
NewScraperInput ==
  [SiteType |-> <<>>, Country |-> Some(CountryUSA), Offset |-> 0,
   DescriptionFormat |-> Some(FormatMarkdown),
   RequestTimeout |-> DefaultTimeout, ResultsWanted |-> DefaultResults]

\* --------------------------------------------------------- caller's inputs
NameStrings ==
  { <<"I","n","d","e","e","d">>, SiteLinkedIn, <<"m","o","n","s","t","e","r">> }

SingleNames == NameStrings \cup { SiteIndeed, <<>> }

SiteValues == { SiteIndeed, SiteLinkedIn }

SiteNameInputs ==
  {[type |-> "nil", val |-> <<>>], [type |-> "int", val |-> <<>>]}
  \cup {[type |-> "string", val |-> n] : n \in SingleNames}
  \cup {[type |-> "[]string", val |-> l] : l \in SeqsUpTo(NameStrings, MaxSites)}
  \cup {[type |-> "Site", val |-> v] : v \in SiteValues}
  \cup {[type |-> "[]Site", val |-> l] :
          l \in {q \in SeqsUpTo(SiteValues, MaxSites) : Cardinality(Range(q)) = Len(q)}}

ProxyStrings == { <<"h","t","t","p",":","/","/","a">>, <<"a",":","1">> }

\* country names: every name and alias the code knows, some in upper case,
\* and names it does not know
CountryStrings ==
  { <<>>,
    <<"u","s","a">>,
    <<"U","S">>,
    <<"u","n","i","t","e","d"," ","s","t","a","t","e","s">>,
    <<"C","a","n","a","d","a">>,
    <<"c","a">>,
    <<"u","k">>,
    <<"U","n","i","t","e","d"," ","K","i","n","g","d","o","m">>,
    <<"g","b">>,
    <<"g","e","r","m","a","n","y">>,
    <<"D","E">>,
    <<"f","r","a","n","c","e">>,
    <<"f","r">>,
    <<"m","a","r","s">>,
    <<"u">> }

FormatStrings == {FormatMarkdown, FormatHTML, FormatPlain, "xml"}

AllInputs ==
  [SiteName : SiteNameInputs,
   ResultsWanted : {Nil} \cup {Some(n) : n \in 0..MaxWanted},
   Offset : {Nil} \cup {Some(n) : n \in 0..MaxOffset},
   DescriptionFormat : {Nil} \cup {Some(f) : f \in FormatStrings},
   Proxies : SeqsUpTo(ProxyStrings, MaxProxies),
   CountryIndeed : CountryStrings]

\* the zero value of every optional field, and the one site that has a scraper
PlainInput ==
  [SiteName |-> [type |-> "string", val |-> SiteIndeed], ResultsWanted |-> Nil,
   Offset |-> Nil, DescriptionFormat |-> Nil, Proxies |-> <<>>, CountryIndeed |-> <<>>]

\* the inputs explored: each departs from PlainInput in one group of fields
\* (the site list, the window, the description format, the proxy list or the
\* country)
Departures(in) ==
  {g \in {"sites", "window", "format", "proxies", "country"} :
     \/ g = "sites" /\ in.SiteName # PlainInput.SiteName
     \/ g = "window" /\ (in.ResultsWanted # Nil \/ in.Offset # Nil)
     \/ g = "format" /\ in.DescriptionFormat # Nil
     \/ g = "proxies" /\ in.Proxies # <<>>
     \/ g = "country" /\ in.CountryIndeed # <<>>}

ScrapeJobsInputs == {in \in AllInputs : Cardinality(Departures(in)) <= 1}

\* ------------------------------------------------------------- environment
JobKeys == 1..NumJobs
Cursors == {"", "10"}

\* the job cards of one page: any sequence of job keys
Pages == SeqsUpTo(JobKeys, MaxPageLen)

\* pages that are a window of the source's result list 1, 2, ..., NumJobs;
\* windows may overlap and repeat
WindowPages ==
  {<<>>}
  \cup UNION {{[k \in 1..n |-> a + k - 1] : n \in 1..Min(MaxPageLen, NumJobs - a + 1)} :
              a \in JobKeys}

\* what one scrapePage call can meet: a transport error from Get, a status
\* other than 200, an HTML parse error, or a page of job cards with the
\* "start" parameter of its Next Page link ("" when there is none)
ResponsesOver(kinds, pages) ==
  {[kind |-> k, items |-> <<>>, next |-> ""] : k \in kinds}
  \cup {[kind |-> "ok", items |-> p, next |-> c] : p \in pages, c \in Cursors}

\* ------------------------------------------------------------------- state
VARIABLES
  input,        \* *ScrapeJobsInput of the caller (ScrapeJobs writes its nil defaults)
  opc,          \* position of ScrapeJobs
  sites,        \* result of parseSites
  scraperInput, \* the *ScraperInput shared by all goroutines
  constructed,  \* the scrapers map has been built
  seenURLs,     \* IndeedScraper.seenURLs of the one Indeed scraper
  rotator,      \* its HTTPClient.proxyRotator: Nil or Some([proxies, current])
  li,           \* index of the `for _, site := range sites` loop
  warned,       \* sites skipped with "Scraper not implemented for site"
  tasks,        \* the launched goroutines, in launch order
  wg,           \* sync.WaitGroup counter
  resultsChan,  \* buffered channel of *JobResponse
  errorsChan,   \* buffered channel of error
  closed,       \* both channels closed
  delivered,    \* history: the goroutines in the order of their channel sends
  loggedErrors, \* errors written by Logger.Error("Scraping error", ...)
  ret,          \* what ScrapeJobs returned: [resp, err]
  httpCount,    \* HTTP requests issued so far
  handed,       \* history: how often ProxyRotator.Next returned each proxy
  transport,    \* HTTPClient.client.Transport: Nil or Some(proxy)
  sent,         \* history: the requests client.Do sent, [method, via], in order
  call          \* a library function called on its own: [fn, arg, out]

vars == <<input, opc, sites, scraperInput, constructed, seenURLs, rotator, li, warned,
          tasks, wg, resultsChan, errorsChan, closed, delivered, loggedErrors, ret, httpCount,
          handed, transport, sent, call>>

NoCall == [fn |-> "none", arg |-> <<>>, out |-> <<>>]

\* the state before ScrapeJobs is called with one of the inputs ins
InitOver(ins) ==
  /\ input \in ins
  /\ handed = <<>>
  /\ transport = Nil
  /\ sent = <<>>
  /\ call = NoCall
  /\ opc = "start"
  /\ sites = <<>>
  /\ scraperInput = Nil
  /\ constructed = FALSE
  /\ seenURLs = {}
  /\ rotator = Nil
  /\ li = 1
  /\ warned = <<>>
  /\ tasks = <<>>
  /\ wg = 0
  /\ resultsChan = <<>>
  /\ errorsChan = <<>>
  /\ closed = FALSE
  /\ delivered = <<>>
  /\ loggedErrors = <<>>
  /\ ret = Nil
  /\ httpCount = 0

Init == InitOver(ScrapeJobsInputs)

\* ------------------------------------------------------------- ScrapeJobs
\* lines 44-48: parseSites and the early return on its error
Resolve ==
  /\ opc = "start"
  /\ LET r == parseSites(input.SiteName) IN
     IF r.err # NoErr
     THEN /\ opc' = "returned"
          /\ ret' = Some([resp |-> Nil, err |-> <<"error parsing sites: ">> \o r.err])
          /\ sites' = sites
     ELSE /\ opc' = "resolved"
          /\ sites' = r.sites
          /\ ret' = ret
  /\ UNCHANGED <<transport, sent, call, handed, input, scraperInput, constructed, seenURLs, rotator, li, warned, tasks, wg,
                 resultsChan, errorsChan, closed, delivered, loggedErrors, httpCount>>

\* lines 50-62: nil ResultsWanted and Offset get their defaults
WithDefaults(in) ==
  [in EXCEPT !.ResultsWanted = IF IsNil(@) THEN Some(DefaultResults) ELSE @,
             !.Offset = IF IsNil(@) THEN Some(DefaultOffset) ELSE @]

\* lines 83-96: the description format switch
DescriptionFormatOf(in) ==
  IF IsNil(in.DescriptionFormat) THEN Nil
  ELSE CASE Deref(in.DescriptionFormat) = "markdown" -> Some(FormatMarkdown)
         [] Deref(in.DescriptionFormat) = "html" -> Some(FormatHTML)
         [] Deref(in.DescriptionFormat) = "plain" -> Some(FormatPlain)
         [] OTHER -> Nil

\* lines 64-96: the ScraperInput built from the defaulted input
MakeScraperInput(in, ss) ==
  [SiteType |-> ss, Country |-> CountryFromString(in.CountryIndeed),
   Offset |-> Deref(in.Offset), RequestTimeout |-> 60,
   ResultsWanted |-> Deref(in.ResultsWanted), DescriptionFormat |-> DescriptionFormatOf(in)]

\* NewProxyRotator, called by NewHTTPClient only for a non-empty list
NewProxyRotator(proxies) == [proxies |-> proxies, current |-> 0]

\* NewHTTPClient: the proxy rotator of the client
NewHTTPClient(proxies) == IF Len(proxies) > 0 THEN Some(NewProxyRotator(proxies)) ELSE Nil

\* lines 50-107: defaults, ScraperInput, scrapers map, WaitGroup and channels
Prepare ==
  /\ opc = "resolved"
  /\ input' = WithDefaults(input)
  /\ scraperInput' = Some(MakeScraperInput(input', sites))
  /\ constructed' = TRUE
  /\ seenURLs' = {}
  /\ rotator' = NewHTTPClient(input.Proxies)
  /\ handed' = [p \in Range(input.Proxies) |-> 0]
  /\ li' = 1
  /\ opc' = "launch"
  /\ UNCHANGED <<transport, sent, call, sites, warned, tasks, wg, resultsChan, errorsChan, closed, delivered, loggedErrors,
                 ret, httpCount>>

\* mutant of HasScraper: the map is keyed by the display name
HasScraperWrongKey(site) == site = <<"I","n","d","e","e","d">>

\* the scrapers map: only SiteIndeed has an entry
HasScraper(site) == site = SiteIndeed

\* the goroutines this run launches
Concurrency == Cardinality({k \in DOMAIN sites : HasScraper(sites[k])})

\* the responses explored: for a run with one goroutine every failure and
\* every page; for a run with several goroutines at once a transport error, a
\* bad status and the window pages
Responses ==
  IF Concurrency <= 1
  THEN ResponsesOver({"transport", "status", "parse"}, Pages)
  ELSE ResponsesOver({"transport", "status"}, WindowPages)

\* -------------------------------------------------- IndeedScraper.Scrape
\* lines 73-81: the offset/limit window, as 0-based bounds [start, end)
WindowStart(n, off) == IF off > n THEN n ELSE off

\* mutant of WindowEnd: the end of the window forgets the offset
WindowEndNoOffset(n, off, rw) == IF rw > n THEN n ELSE rw

\* mutant of WindowEnd: the window runs to the end of the list
WindowEndNoLimit(n, off, rw) == n

WindowEnd(n, off, rw) == IF off + rw > n THEN n ELSE off + rw

\* lines 83-85: allJobs[start:end]
Window(all, off, rw) ==
  SubSeq(all, WindowStart(Len(all), off) + 1, WindowEnd(Len(all), off, rw))

\* the walk has ended without error: Scrape returns the window
Finish(t) ==
  [t EXCEPT !.pc = "ret", !.url = Nil,
            !.result = Some(Window(t.allJobs, Deref(scraperInput).Offset,
                                   Deref(scraperInput).ResultsWanted))]

\* mutant of LoopCondition: the offset is left out of the target
LoopConditionNoOffset(t) == Len(t.allJobs) < Deref(scraperInput).ResultsWanted

\* line 51: the loop condition
LoopCondition(t) ==
  Len(t.allJobs) < Deref(scraperInput).ResultsWanted + Deref(scraperInput).Offset

\* mutant of SearchURL: every request asks for the first page
SearchURLFirstPage(cursor) == Some("")

\* scrapePage lines 90-105: the "start" parameter of the search URL is the
\* cursor handed to scrapePage ("" when the parameter is left out)
SearchURL(cursor) == Some(cursor)

\* line 51: next iteration or leave the loop.  The next iteration calls
\* scrapePage, which builds the URL and calls HTTPClient.Get: without a proxy
\* rotator the request goes out at once (pc "wait"), with one Get first calls
\* ProxyRotator.Next (pc "req")
LoopCheck(t) ==
  IF LoopCondition(t)
  THEN [t EXCEPT !.pc = IF IsNil(rotator) THEN "wait" ELSE "req", !.url = SearchURL(t.cursor)]
  ELSE Finish(t)

\* 1 when the step of a goroutine ended with its HTTP request sent
RequestSent(t) == IF t.pc = "wait" THEN 1 ELSE 0

\* mutant of Fail: the error is noted and the walk goes on with the next page
FailContinues(t, kind) ==
  [t EXCEPT !.err = Some([page |-> t.page, cause |-> kind]), !.page = @ + 1, !.url = Nil]

\* lines 55-57: scrapePage failed
Fail(t, kind) ==
  [t EXCEPT !.pc = "ret", !.url = Nil, !.err = Some([page |-> t.page, cause |-> kind])]

\* mutant of NewJobs: every card of the page is taken, seen before or not
NewJobsNoDedup(items, seen) == items

\* scrapePage lines 134-143: the cards of a page whose JobURL is not in seenURLs
RECURSIVE NewJobs(_, _)
NewJobs(items, seen) ==
  IF items = <<>> THEN <<>>
  ELSE IF Head(items) \in seen THEN NewJobs(Tail(items), seen)
       ELSE <<Head(items)>> \o NewJobs(Tail(items), seen \cup {Head(items)})

\* mutant of SeenAfter: the URLs of the page are not recorded
SeenAfterForgets(items, seen) == seen

\* scrapePage line 140: seenURLs after the cards of a page went through the filter
SeenAfter(items, seen) == seen \cup Range(items)

\* mutant of InputAfterPage: the offset is consumed by the first page
InputAfterPageConsumesOffset(in) == [in EXCEPT !.Offset = 0]

\* Scrape, scrapePage and parseJobCard only read *input: the ScraperInput as
\* one scrapePage call leaves it
InputAfterPage(in) == in

\* lines 59-70: the rest of one loop iteration after scrapePage returned a page
AfterPage(t, jobs, nextCursor) ==
  IF Len(jobs) = 0 THEN Finish(t)
  ELSE LET u == [t EXCEPT !.allJobs = @ \o jobs, !.cursor = nextCursor, !.page = @ + 1]
       IN IF nextCursor = "" THEN Finish(u) ELSE LoopCheck(u)

\* url.Parse of a proxy entry: an entry that starts with a colon has no
\* protocol scheme and fails; the other entries explored parse
UrlParses(proxy) == ~(proxy # <<>> /\ proxy[1] = ":")

\* mutant of TransportAfter: the transport is set once and kept
TransportAfterSticky(proxy, tr) == IF IsNil(tr) THEN Some(proxy) ELSE tr

\* HTTPClient.Get lines 113-119: the transport after Next returned proxy
TransportAfter(proxy, tr) ==
  IF proxy # <<>> /\ UrlParses(proxy) THEN Some(proxy) ELSE tr

\* one request as client.Do sends it
Request(method, via) == [method |-> method, via |-> via]

\* a goroutine as launched: Scrape up to its first page request
NewTask(idx) ==
  LoopCheck([idx |-> idx, domain |-> getCountryDomain(Deref(scraperInput).Country).domain,
             pc |-> "start", allJobs |-> <<>>, cursor |-> "", page |-> 1,
             rd |-> 0, url |-> Nil, result |-> Nil, err |-> Nil])

\* lines 109-131: one iteration of the launch loop
LaunchStep ==
  /\ opc = "launch"
  /\ li <= Len(sites)
  /\ IF HasScraper(sites[li])
     THEN /\ wg' = wg + 1
          /\ tasks' = Append(tasks, NewTask(li))
          /\ httpCount' = httpCount + RequestSent(NewTask(li))
          /\ sent' = IF RequestSent(NewTask(li)) = 1
                     THEN Append(sent, Request("GET", transport)) ELSE sent
          /\ warned' = warned
     ELSE /\ warned' = Append(warned, sites[li])
          /\ UNCHANGED <<wg, tasks, httpCount, sent>>
  /\ li' = li + 1
  /\ UNCHANGED <<transport, call, handed, input, opc, sites, scraperInput, constructed, seenURLs, rotator,
                 resultsChan, errorsChan, closed, delivered, loggedErrors, ret>>

Running(i) == i \in DOMAIN tasks /\ opc = "launch"

\* HTTPClient.Get lines 111-112 with a rotator: ProxyRotator.Next line 63
\* reads the index and picks the proxy
GetRequest(i) ==
  /\ Running(i)
  /\ tasks[i].pc = "req"
  /\ tasks' = [tasks EXCEPT ![i].pc = "adv", ![i].rd = Deref(rotator).current]
  /\ handed' = [handed EXCEPT ![Deref(rotator).proxies[Deref(rotator).current + 1]] = @ + 1]
  /\ UNCHANGED <<transport, sent, call, input, opc, sites, scraperInput, constructed, seenURLs, rotator, li, warned,
                 wg, resultsChan, errorsChan, closed, delivered, loggedErrors, ret, httpCount>>

\* ProxyRotator.Next line 64: the unsynchronized index update, from the value
\* read at line 63 or from the value in memory now; then Get lines 113-119
\* set the transport and client.Do sends the request through it
NextAdvance(i) ==
  /\ Running(i)
  /\ tasks[i].pc = "adv"
  /\ \E v \in {tasks[i].rd, Deref(rotator).current} :
       rotator' = Some([Deref(rotator) EXCEPT !.current = (v + 1) % Len(Deref(rotator).proxies)])
  /\ tasks' = [tasks EXCEPT ![i].pc = "wait"]
  /\ transport' = TransportAfter(Deref(rotator).proxies[tasks[i].rd + 1], transport)
  /\ sent' = Append(sent, Request("GET", transport'))
  /\ httpCount' = httpCount + 1
  /\ UNCHANGED <<call, handed, input, opc, sites, scraperInput, constructed, seenURLs, li, warned,
                 wg, resultsChan, errorsChan, closed, delivered, loggedErrors, ret>>

\* scrapePage lines 115-158 and Scrape lines 54-71: the response arrives and
\* is parsed, deduplicated and appended
Respond(i) ==
  /\ Running(i)
  /\ tasks[i].pc = "wait"
  /\ \E r \in Responses :
       IF r.kind # "ok"
       THEN /\ tasks' = [tasks EXCEPT ![i] = Fail(@, r.kind)]
            /\ seenURLs' = seenURLs
       ELSE /\ tasks' = [tasks EXCEPT ![i] = AfterPage(@, NewJobs(r.items, seenURLs), r.next)]
            /\ seenURLs' = SeenAfter(r.items, seenURLs)
  /\ scraperInput' = Some(InputAfterPage(Deref(scraperInput)))
  /\ httpCount' = httpCount + RequestSent(tasks'[i])
  /\ sent' = IF RequestSent(tasks'[i]) = 1 THEN Append(sent, Request("GET", transport)) ELSE sent
  /\ UNCHANGED <<transport, call, handed, input, opc, sites, constructed, rotator, li, warned,
                 wg, resultsChan, errorsChan, closed, delivered, loggedErrors, ret>>

\* seenURLs is a Go map written by every goroutine that runs the one Indeed
\* scraper: with two page parses under way the runtime may stop the process
\* ("fatal error: concurrent map writes")
MapRaceFault ==
  /\ opc = "launch"
  /\ \E i, j \in DOMAIN tasks : i # j /\ tasks[i].pc = "wait" /\ tasks[j].pc = "wait"
  /\ opc' = "crashed"
  /\ UNCHANGED <<transport, sent, call, handed, input, sites, scraperInput, constructed, seenURLs, rotator, li, warned, tasks,
                 wg, resultsChan, errorsChan, closed, delivered, loggedErrors, ret, httpCount>>

\* mutant of ChanCap: the channels hold one message less than there are sites
ChanCapShort == Len(sites) - 1

\* lines 106-107: both channels are buffered to len(sites)
ChanCap == Len(sites)

\* lines 122-130 and the deferred wg.Done: the goroutine sends its one message
Send(i) ==
  /\ Running(i)
  /\ tasks[i].pc = "ret"
  /\ IF ~IsNil(tasks[i].err)
     THEN /\ Len(errorsChan) < ChanCap
          /\ errorsChan' = Append(errorsChan, Deref(tasks[i].err))
          /\ resultsChan' = resultsChan
     ELSE /\ Len(resultsChan) < ChanCap
          /\ resultsChan' = Append(resultsChan, Deref(tasks[i].result))
          /\ errorsChan' = errorsChan
  /\ wg' = wg - 1
  /\ delivered' = Append(delivered, i)
  /\ tasks' = [tasks EXCEPT ![i].pc = "done"]
  /\ UNCHANGED <<transport, sent, call, handed, input, opc, sites, scraperInput, constructed, seenURLs, rotator, li, warned,
                 closed, loggedErrors, ret, httpCount>>

\* mutant of WaitReturns: no wait for the goroutines
WaitReturnsAtOnce(n) == TRUE

\* line 133: wg.Wait returns
WaitReturns(n) == n = 0

\* lines 133-135: wait for the goroutines, close both channels
Wait ==
  /\ opc = "launch"
  /\ li > Len(sites)
  /\ WaitReturns(wg)
  /\ closed' = TRUE
  /\ opc' = "collect"
  /\ UNCHANGED <<transport, sent, call, handed, delivered, input, sites, scraperInput, constructed, seenURLs, rotator, li, warned, tasks,
                 wg, resultsChan, errorsChan, loggedErrors, ret, httpCount>>

\* mutant of CollectJobs: one receive instead of a range over the channel
CollectJobsFirst(results) == IF results = <<>> THEN <<>> ELSE Head(results)

\* mutant of CollectJobs: each received result is put in front of allJobs
RECURSIVE CollectJobsPrepend(_)
CollectJobsPrepend(results) ==
  IF results = <<>> THEN <<>> ELSE CollectJobsPrepend(Tail(results)) \o Head(results)

\* lines 138-141: allJobs from the results channel, in channel order
CollectJobs(results) == Flatten(results)

\* mutant of ReturnValue: the first adapter error fails the whole operation
ReturnValueFailFast(jobs, errs) ==
  IF errs # <<>> THEN [resp |-> Nil, err |-> <<"scraping failed: ", Head(errs)>>]
  ELSE [resp |-> Some([Jobs |-> jobs]), err |-> NoErr]

\* lines 143-148: the errors are logged; the return value
ReturnValue(jobs, errs) == [resp |-> Some([Jobs |-> jobs]), err |-> NoErr]

\* lines 137-148: drain both channels and return
Collect ==
  /\ opc = "collect"
  /\ loggedErrors' = errorsChan
  /\ ret' = Some(ReturnValue(CollectJobs(resultsChan), errorsChan))
  /\ resultsChan' = <<>>
  /\ errorsChan' = <<>>
  /\ opc' = "returned"
  /\ UNCHANGED <<transport, sent, call, handed, input, sites, scraperInput, constructed, seenURLs, rotator, li, warned, tasks,
                 wg, closed, delivered, httpCount>>

Next ==
  \/ Resolve
  \/ Prepare
  \/ LaunchStep
  \/ \E i \in 1..MaxSites : GetRequest(i)
  \/ \E i \in 1..MaxSites : NextAdvance(i)
  \/ \E i \in 1..MaxSites : Respond(i)
  \/ \E i \in 1..MaxSites : Send(i)
  \/ MapRaceFault
  \/ Wait
  \/ Collect

Spec == Init /\ [][Next]_vars

\* ---------------------------------------- the library functions on their own
\* the texts made of up to n of the given pieces
Texts(pieces, n) == {Flatten(q) : q \in SeqsUpTo(pieces, n)}

SiteNameStrings ==
  { <<"i","n","d","e","e","d">>,
    <<"I","n","d","e","e","d">>,
    <<"L","I","N","K","E","D","I","N">>,
    <<"l","i","n","k","e","d","i","n">>,
    <<"z","i","p","_","r","e","c","r","u","i","t","e","r">>,
    <<"z","i","p","r","e","c","r","u","i","t","e","r">>,
    <<"Z","i","p","R","e","c","r","u","i","t","e","r">>,
    <<"Z","i","p","_","R","e","c","r","u","i","t","e","r">>,
    <<"g","l","a","s","s","d","o","o","r">>,
    <<"G","l","a","s","s","D","o","o","r">>,
    <<"g","o","o","g","l","e">>,
    <<"G","o","o","g","l","e">>,
    <<"b","a","y","t">>,
    <<"B","A","Y","T">>,
    <<"n","a","u","k","r","i">>,
    <<"N","a","u","k","r","i">>,
    <<"b","d","j","o","b","s">>,
    <<"B","D","J","o","b","s">>,
    <<"m","o","n","s","t","e","r">>,
    <<"z","i","p"," ","r","e","c","r","u","i","t","e","r">>,
    <<"i","n","d","e","e","d"," ">>,
    <<"i","n">>,
    <<>> }

ListNames ==
  { <<"I","n","d","e","e","d">>,
    <<"L","I","N","K","E","D","I","N">>,
    <<"z","i","p","R","e","c","r","u","i","t","e","r">>,
    <<"m","o","n","s","t","e","r">>,
    <<>> }

SiteNameLists == SeqsUpTo(ListNames, MaxNames)

CityStrings == {<<"B","o","s","t","o","n">>, <<"N","e","w"," ","Y","o","r","k">>, <<>>}
StateStrings == {<<"N","Y">>, <<"C","A">>}

\* the Country constants, and values of the Country type that are none
CountryValues ==
  { CountryUSA, CountryCanada, CountryUK, CountryGermany, CountryFrance,
    <<"d","e">>, <<"c","a">>, <<"s","o","u","t","h"," ","a","f","r","i","c","a">> }

Locations ==
  [City : {Nil} \cup {Some(c) : c \in CityStrings},
   State : {Nil} \cup {Some(s) : s \in StateStrings},
   Country : {Nil} \cup {Some(c) : c \in CountryValues}]

LocationPointers == {Nil} \cup {Some(l) : l \in Locations}

SalaryPieces ==
  { <<"$","5","0",",","0","0","0">>,
    <<" ","-"," ">>,
    <<"$","7","0",",","0","0","0">>,
    <<" ","a"," ","y","e","a","r">>,
    <<"$","2","5",".","5","0">>,
    <<" ","a","n"," ","h","o","u","r">>,
    <<"A","n","n","u","a","l"," ">>,
    <<"/","M","o","n","t","h">>,
    <<",">>,
    <<"p","a","y">>,
    <<"1">>,
    <<".","5">> }

EmailPieces ==
  { <<"a","@","b",".","c","c">>,
    <<"h","r","@","b",".","i","o"," ">>,
    <<" ">>,
    <<"x">>,
    <<"@">>,
    <<".">>,
    <<"a","@","b">>,
    <<".","c">>,
    <<"c">>,
    <<"-">> }

JobTypePieces ==
  { <<"f","u","l","l","-","t","i","m","e">>,
    <<"F","U","L","L","T","I","M","E">>,
    <<"P","a","r","t","-","T","i","m","e">>,
    <<"p","a","r","t","t","i","m","e">>,
    <<"C","o","n","t","r","a","c","t","o","r">>,
    <<"t","e","m","p","o","r","a","r","y">>,
    <<"I","n","t","e","r","n","s","h","i","p">>,
    <<"t","e","i","l","z","e","i","t">>,
    <<"p","r","a-acute","c","t","i","c","a","s">>,
    <<"p","e","r","i-acute","o","d","o","i","n","t","e","g","r","a","l">>,
    <<" ">>,
    <<"f","u","l","l">>,
    <<"-","t","i","m","e">> }

\* every variable of a ScrapeJobs run
runVars == <<input, opc, sites, scraperInput, constructed, seenURLs, rotator, li, warned,
             tasks, wg, resultsChan, errorsChan, closed, delivered, loggedErrors, ret,
             httpCount, handed, transport, sent>>

CallMapStringToSite ==
  /\ call = NoCall
  /\ \E s \in SiteNameStrings :
       call' = [fn |-> "MapStringToSite", arg |-> s, out |-> MapStringToSite(s)]
  /\ UNCHANGED runVars

CallParseSites ==
  /\ call = NoCall
  /\ \E names \in SiteNameLists :
       call' = [fn |-> "parseSites", arg |-> names,
                out |-> parseSites([type |-> "[]string", val |-> names])]
  /\ UNCHANGED runVars

CallLocationString ==
  /\ call = NoCall
  /\ \E loc \in LocationPointers :
       call' = [fn |-> "locationString", arg |-> loc, out |-> locationString(loc)]
  /\ UNCHANGED runVars

CallParseSalary ==
  /\ call = NoCall
  /\ \E text \in Texts(SalaryPieces, MaxPieces) :
       call' = [fn |-> "parseSalary", arg |-> text, out |-> parseSalary(text)]
  /\ UNCHANGED runVars

CallExtractEmailsFromText ==
  /\ call = NoCall
  /\ \E text \in Texts(EmailPieces, MaxPieces) :
       call' = [fn |-> "ExtractEmailsFromText", arg |-> text,
                out |-> ExtractEmailsFromText(text)]
  /\ UNCHANGED runVars

CallJobTypeFromString ==
  /\ call = NoCall
  /\ \E s \in Texts(JobTypePieces, MaxPieces) :
       call' = [fn |-> "JobTypeFromString", arg |-> s, out |-> JobTypeFromString(s)]
  /\ UNCHANGED runVars

\* ------------------------------------------ scrapePage: job cards and dedup
\* strings.TrimSpace over the white space explored
IsSpace(c) == c \in {" ", "\n", "\t"}

RECURSIVE TrimLeft(_)
TrimLeft(s) == IF s # <<>> /\ IsSpace(Head(s)) THEN TrimLeft(Tail(s)) ELSE s

RECURSIVE TrimRight(_)
TrimRight(s) ==
  IF s # <<>> /\ IsSpace(s[Len(s)]) THEN TrimRight(SubSeq(s, 1, Len(s) - 1)) ELSE s

TrimSpace(s) == TrimRight(TrimLeft(s))

\* Scrape line 40 and parseJobCard line 191: the job URL, as the pieces
\* Sprintf puts together followed by the characters of the job key
JobURLOf(domain, jobKey) == <<"https://", domain, ".indeed.com", "/viewjob?jk=">> \o jobKey

\* parseJobCard lines 169-173: the text of span[title] in the title link, or
\* of the link itself when there is no such span
TitleText(card) == IF ~IsNil(card.span) THEN Deref(card.span) ELSE card.anchor

\* mutant of parseJobCard: a card without a title is kept
parseJobCardKeepsUntitled(card, domain) ==
  IF IsNil(card.jk) THEN Nil
  ELSE Some([ID |-> Deref(card.jk), Title |-> TrimSpace(TitleText(card)),
             JobURL |-> JobURLOf(domain, Deref(card.jk))])

\* parseJobCard: nil for a card without data-jk or without a title; of the
\* JobPost the fields ID, Title and JobURL
parseJobCard(card, domain) ==
  IF IsNil(card.jk) THEN Nil
  ELSE IF TrimSpace(TitleText(card)) = <<>> THEN Nil
  ELSE Some([ID |-> Deref(card.jk), Title |-> TrimSpace(TitleText(card)),
             JobURL |-> JobURLOf(domain, Deref(card.jk))])

\* scrapePage lines 134-143: the Each loop over the cards, with seenURLs as
\* it stands; the jobs appended
RECURSIVE CardJobs(_, _, _)
CardJobs(cards, domain, seen) ==
  IF cards = <<>> THEN <<>>
  ELSE LET job == parseJobCard(Head(cards), domain) IN
       IF IsNil(job) \/ Deref(job).JobURL \in seen
       THEN CardJobs(Tail(cards), domain, seen)
       ELSE <<Deref(job)>> \o CardJobs(Tail(cards), domain, seen \cup {Deref(job).JobURL})

\* the elements of a page that may be job cards
CardKeys == {Nil, Some(<<>>), Some(<<"k","1">>), Some(<<"k","2">>)}
CardSpans == {Nil, Some(<<" ">>), Some(<<" ","D","e","v"," ">>)}
CardAnchors == {<<>>, <<"G","o">>}
Cards == [jk : CardKeys, span : CardSpans, anchor : CardAnchors]

\* the cards of one page go through parseJobCard and the seenURLs filter of a
\* new scraper
CallScrapeCards ==
  /\ call = NoCall
  /\ \E cards \in SeqsUpTo(Cards, MaxPageLen) :
       call' = [fn |-> "scrapePage", arg |-> cards, out |-> CardJobs(cards, "www", {})]
  /\ UNCHANGED runVars

\* the same page goes through the seenURLs filter of one scraper twice: the
\* jobs of each pass and the set after each
CallDedupTwice ==
  /\ call = NoCall
  /\ \E items \in Pages, seen \in SUBSET JobKeys :
       LET first == NewJobs(items, seen)
           seen1 == SeenAfter(items, seen)
           second == NewJobs(items, seen1)
           seen2 == SeenAfter(items, seen1)
       IN call' = [fn |-> "dedup", arg |-> [items |-> items, seen |-> seen],
                   out |-> [first |-> first, seen1 |-> seen1,
                            second |-> second, seen2 |-> seen2]]
  /\ UNCHANGED runVars

\* ------------------------------------- the proxy rotator and the HTTP client
\* proxy lists handed to NewProxyRotator and NewHTTPClient: the entries of the
\* runs and one that url.Parse rejects
ClientProxyStrings == ProxyStrings \cup {<<":","x">>}

ProxyLists == SeqsUpTo(ClientProxyStrings, MaxProxies)

\* mutant of RotatorNext: the index is never advanced
RotatorNextStuck(pr) ==
  IF Len(pr.proxies) = 0 THEN [proxy |-> <<>>, rotator |-> pr]
  ELSE [proxy |-> pr.proxies[pr.current + 1], rotator |-> pr]

\* ProxyRotator.Next called by one caller at a time: the proxy returned and
\* the rotator afterwards
RotatorNext(pr) ==
  IF Len(pr.proxies) = 0 THEN [proxy |-> <<>>, rotator |-> pr]
  ELSE [proxy |-> pr.proxies[pr.current + 1],
        rotator |-> [pr EXCEPT !.current = (pr.current + 1) % Len(pr.proxies)]]

\* the history of handed proxies after Next returned proxy
Hand(h, proxy) == IF proxy = <<>> THEN h ELSE [h EXCEPT ![proxy] = @ + 1]

\* the variables of a ScrapeJobs run that the rotator and the client leave alone
libVars == <<input, opc, sites, scraperInput, constructed, seenURLs, li, warned, tasks, wg,
             resultsChan, errorsChan, closed, delivered, loggedErrors, ret>>

\* a rotator of its own
CallNewProxyRotator ==
  /\ call = NoCall
  /\ \E ps \in ProxyLists :
       /\ rotator' = Some(NewProxyRotator(ps))
       /\ handed' = [p \in Range(ps) |-> 0]
       /\ call' = [fn |-> "NewProxyRotator", arg |-> ps, out |-> <<>>]
  /\ UNCHANGED <<libVars, transport, sent, httpCount>>

\* the calls of Next on that rotator, one after the other; arg is the number
\* of the call, counted from 0
CallNext ==
  /\ call.fn \in {"NewProxyRotator", "Next"}
  /\ LET i == IF call.fn = "Next" THEN call.arg + 1 ELSE 0
         r == RotatorNext(Deref(rotator))
     IN /\ i < MaxCalls
        /\ rotator' = Some(r.rotator)
        /\ handed' = Hand(handed, r.proxy)
        /\ call' = [fn |-> "Next", arg |-> i, out |-> r.proxy]
  /\ UNCHANGED <<libVars, transport, sent, httpCount>>

\* an HTTP client of its own
CallNewHTTPClient ==
  /\ call = NoCall
  /\ \E ps \in ProxyLists :
       /\ rotator' = NewHTTPClient(ps)
       /\ handed' = [p \in Range(ps) |-> 0]
       /\ call' = [fn |-> "NewHTTPClient", arg |-> ps, out |-> <<>>]
  /\ transport' = Nil
  /\ UNCHANGED <<libVars, sent, httpCount>>

ClientReady == call.fn \in {"NewHTTPClient", "Get", "Post"} /\ Len(sent) < MaxCalls

\* HTTPClient.Get lines 98-124, one call at a time: Next, the transport, client.Do
CallGet ==
  /\ ClientReady
  /\ IF IsNil(rotator)
     THEN UNCHANGED <<rotator, handed, transport>>
     ELSE LET r == RotatorNext(Deref(rotator))
          IN /\ rotator' = Some(r.rotator)
             /\ handed' = Hand(handed, r.proxy)
             /\ transport' = TransportAfter(r.proxy, transport)
  /\ sent' = Append(sent, Request("GET", transport'))
  /\ httpCount' = httpCount + 1
  /\ call' = [fn |-> "Get", arg |-> call.arg, out |-> <<>>]
  /\ UNCHANGED libVars

\* HTTPClient.Post lines 127-139: the request is built and client.Do sends it;
\* the rotator is not asked and the transport is left as it is
CallPost ==
  /\ ClientReady
  /\ sent' = Append(sent, Request("POST", transport))
  /\ httpCount' = httpCount + 1
  /\ call' = [fn |-> "Post", arg |-> call.arg, out |-> <<>>]
  /\ UNCHANGED <<libVars, rotator, handed, transport>>

PureInit == InitOver({PlainInput})

PureNext ==
  \/ CallMapStringToSite
  \/ CallParseSites
  \/ CallLocationString
  \/ CallParseSalary
  \/ CallExtractEmailsFromText
  \/ CallJobTypeFromString
  \/ CallScrapeCards
  \/ CallDedupTwice
  \/ CallNewProxyRotator
  \/ CallNext
  \/ CallNewHTTPClient
  \/ CallGet
  \/ CallPost

PureSpec == PureInit /\ [][PureNext]_vars

\* ------------------------------------------- runs that share the proxy rotator
\* the indeed site listed more than once, with a proxy list: the goroutines
\* share the one Indeed scraper, its HTTP client and its rotator
RotatorInputs ==
  {[PlainInput EXCEPT !.SiteName = [type |-> "[]string", val |-> l], !.Proxies = ps] :
     l \in {q \in SeqsUpTo({<<"I","n","d","e","e","d">>}, MaxSites) : Len(q) >= 2},
     ps \in SeqsUpTo(ProxyStrings, MaxProxies) \ {<<>>}}

RotatorSpec == InitOver(RotatorInputs) /\ [][Next]_vars

\* ------------------------------------------------------ runs under fairness
\* the runs of one goroutine over every window and proxy list, the runs of
\* two goroutines on the one Indeed scraper, and a run with a site that has no
\* scraper next to the one that has
WalkInputs ==
  {in \in ScrapeJobsInputs : Departures(in) \subseteq {"window", "proxies"}}
  \cup {[PlainInput EXCEPT !.SiteName = [type |-> "[]string", val |-> l]] :
          l \in { <<<<"I","n","d","e","e","d">>, <<"I","n","d","e","e","d">>>>,
                  <<SiteLinkedIn, <<"I","n","d","e","e","d">>>> }}

\* a goroutine that can run does run, and every request gets its response or
\* its error (the client's timeout ends a request that gets none)
FairSpec == InitOver(WalkInputs) /\ [][Next]_vars /\ WF_vars(Next)

\* ================================================================ properties
Returned == opc = "returned"
RanAdapters == Returned /\ constructed
RetErr == Deref(ret).err
RetJobs == Deref(Deref(ret).resp).Jobs

FailedTasks == {i \in DOMAIN tasks : ~IsNil(tasks[i].err)}
SucceededTasks == {i \in DOMAIN tasks : ~IsNil(tasks[i].result)}
ResultOf(i) == Deref(tasks[i].result)

\* b occurs in s as a block of consecutive elements
IsBlockOf(b, s) ==
  \E k \in 0..(Len(s) - Len(b)) : \A j \in 1..Len(b) : s[k + j] = b[j]

RECURSIVE SumLen(_, _)
SumLen(f, S) ==
  IF S = {} THEN 0
  ELSE LET x == CHOOSE y \in S : TRUE IN Len(f[x]) + SumLen(f, S \ {x})

\* the names MapStringToSite accepts, lower-cased
KnownSiteNames ==
  { SiteLinkedIn, SiteIndeed, SiteZipRecruiter,
    <<"z","i","p","r","e","c","r","u","i","t","e","r">>,
    SiteGlassdoor, SiteGoogle, SiteBayt, SiteNaukri, SiteBDJobs }

IsUnknownName(n) == ToLower(n) \notin KnownSiteNames

\* the names of the request, when it is a name or a list of names
RequestedNames ==
  CASE input.SiteName.type = "string" -> <<input.SiteName.val>>
    [] input.SiteName.type = "[]string" -> input.SiteName.val
    [] OTHER -> <<>>

HasUnknownName == \E k \in DOMAIN RequestedNames : IsUnknownName(RequestedNames[k])

UnsupportedType == input.SiteName.type \notin {"nil", "string", "[]string", "Site", "[]Site"}

FirstUnknownName ==
  RequestedNames[CHOOSE k \in DOMAIN RequestedNames :
                   /\ IsUnknownName(RequestedNames[k])
                   /\ \A j \in 1..(k - 1) : ~IsUnknownName(RequestedNames[j])]

ErrorsExposed == IF RetErr = NoErr THEN <<>> ELSE <<RetErr>>

\* C2: every per-adapter error is exposed to the caller: after ScrapeJobs
\* has returned, the caller observes one error entry per failed adapter.
C2_ErrorsExposedToCaller ==
  RanAdapters => Len(ErrorsExposed) = Cardinality(FailedTasks)

C4_UnknownSiteFailsBeforeAnyActivity ==
  HasUnknownName =>
    /\ ~constructed
    /\ tasks = <<>>
    /\ wg = 0
    /\ httpCount = 0
    /\ Returned => RetErr = <<"error parsing sites: ", "unknown site: ", FirstUnknownName>>

C4_Witness ==
  /\ Returned
  /\ input.SiteName.type = "[]string"
  /\ Len(input.SiteName.val) = 2
  /\ ~IsUnknownName(input.SiteName.val[1])
  /\ HasScraper(ToLower(input.SiteName.val[1]))
  /\ IsUnknownName(input.SiteName.val[2])
  /\ RetErr[3] = input.SiteName.val[2]

\* C5: join policy.  ScrapeJobs is past wg.Wait only when the launch loop is
\* over and every launched goroutine has finished and delivered its message;
\* what it returns then contains every posting of every adapter that
\* succeeded.
C5_JoinPolicy ==
  /\ (opc \in {"collect", "returned"} /\ constructed) =>
       /\ li > Len(sites)
       /\ \A i \in DOMAIN tasks : tasks[i].pc = "done"
       /\ Range(delivered) = DOMAIN tasks
  /\ RanAdapters =>
       \A i \in SucceededTasks : Range(ResultOf(i)) \subseteq Range(RetJobs)

C5_Witness ==
  /\ RanAdapters
  /\ Len(tasks) = 2
  /\ \A i \in DOMAIN tasks : tasks[i].pc = "done" /\ tasks[i].page >= 2
  /\ \E i \in SucceededTasks : Len(ResultOf(i)) >= 2

\* the results of the tasks listed in order, concatenated
RECURSIVE ResultsInOrder(_)
ResultsInOrder(order) ==
  IF order = <<>> THEN <<>>
  ELSE (IF Head(order) \in SucceededTasks THEN ResultOf(Head(order)) ELSE <<>>)
       \o ResultsInOrder(Tail(order))

\* C6 as stated: the returned postings are grouped by source in the order
\* the sources were resolved (the goroutines are launched in that order), in
\* each adapter's page order, under every interleaving.
C6_ResolvedOrder_Original ==
  RanAdapters => RetJobs = ResultsInOrder([i \in 1..Len(tasks) |-> i])

\* C6 amended: the returned postings are grouped by goroutine in the order
\* in which the goroutines delivered their results on the results channel,
\* each group being that adapter run's result in its own order.
C6_DeliveryOrder ==
  RanAdapters => RetJobs = ResultsInOrder(delivered)

C6_Witness ==
  /\ RanAdapters
  /\ delivered = <<2, 1>>
  /\ SucceededTasks = {1, 2}
  /\ Len(ResultOf(1)) >= 1
  /\ Len(ResultOf(2)) >= 1

LaunchOver == opc \in {"collect", "returned"} /\ constructed

\* C7 as stated: every resolved source has an adapter run.
C7_EverySourceRuns_Original ==
  LaunchOver => \A k \in DOMAIN sites : \E i \in DOMAIN tasks : tasks[i].idx = k

\* C7 amended: every entry of the resolved list that is the indeed site has
\* exactly one adapter run, on the one Indeed scraper; every other entry has
\* none and was skipped with a warning.
C7_EveryIndeedEntryRuns ==
  LaunchOver =>
    /\ \A k \in DOMAIN sites :
         IF sites[k] = SiteIndeed
         THEN Cardinality({i \in DOMAIN tasks : tasks[i].idx = k}) = 1
         ELSE /\ ~\E i \in DOMAIN tasks : tasks[i].idx = k
              /\ sites[k] \in Range(warned)
    /\ \A i \in DOMAIN tasks : tasks[i].idx \in DOMAIN sites

C7_Witness ==
  /\ LaunchOver
  /\ Len(sites) = 2
  /\ sites[1] = SiteLinkedIn
  /\ sites[2] = SiteIndeed
  /\ Len(tasks) = 1
  /\ tasks[1].idx = 2
  /\ warned = <<SiteLinkedIn>>

ScrapeReturned(i) == tasks[i].pc \in {"ret", "done"} /\ IsNil(tasks[i].err)
Wanted == Deref(scraperInput).ResultsWanted
Skip == Deref(scraperInput).Offset

\* C8: offset/limit windowing.  A Scrape that ended its walk with the
\* accumulated list A returns A[min(offset, len A) : min(offset +
\* resultsWanted, len A)], in order; with offset >= len A that is the empty
\* list.
C8_Window ==
  \A i \in DOMAIN tasks :
    ScrapeReturned(i) =>
      LET A == tasks[i].allJobs
          lo == Min(Skip, Len(A))
          hi == Min(Skip + Wanted, Len(A))
      IN /\ ~IsNil(tasks[i].result)
         /\ ResultOf(i) = [k \in 1..(hi - lo) |-> A[lo + k]]
         /\ Skip >= Len(A) => ResultOf(i) = <<>>

C8_Witness ==
  \E i \in DOMAIN tasks :
    /\ ScrapeReturned(i)
    /\ Skip = 1
    /\ Wanted = 1
    /\ Len(tasks[i].allJobs) = 3
    /\ ResultOf(i) = <<tasks[i].allJobs[2]>>

\* C9: defaults.  When the caller leaves results-wanted, offset and the
\* description format unset, the ScraperInput built by ScrapeJobs has
\* ResultsWanted 15, Offset 0 and DescriptionFormat markdown; NewScraperInput
\* has ResultsWanted 15, Offset 0, markdown, country USA and timeout 60.
C9_Defaults ==
  [][ (opc = "resolved" /\ opc' = "launch") =>
        /\ IsNil(input.ResultsWanted) => Deref(scraperInput').ResultsWanted = 15
        /\ IsNil(input.Offset) => Deref(scraperInput').Offset = 0
        /\ IsNil(input.DescriptionFormat) =>
             Deref(scraperInput').DescriptionFormat = Some(FormatMarkdown)
        /\ NewScraperInput.ResultsWanted = 15
        /\ NewScraperInput.Offset = 0
        /\ NewScraperInput.DescriptionFormat = Some(FormatMarkdown)
        /\ NewScraperInput.Country = Some(CountryUSA)
        /\ NewScraperInput.RequestTimeout = 60 ]_vars

\* C10: proxy normalization.  Every entry of the proxy list an HTTP request
\* goes through starts with http://, https:// or socks5://: it is the
\* caller's entry with "http://" prepended when it had none of the three,
\* and the caller's entry unchanged otherwise.
C10_ProxiesNormalized ==
  (~IsNil(rotator) /\ httpCount > 0) =>
    /\ \A k \in DOMAIN Deref(rotator).proxies : HasScheme(Deref(rotator).proxies[k])
    /\ Deref(rotator).proxies = [k \in DOMAIN input.Proxies |-> FormatProxy(input.Proxies[k])]
    /\ \A k \in DOMAIN input.Proxies :
         FormatProxy(FormatProxy(input.Proxies[k])) = FormatProxy(input.Proxies[k])

\* -------------------------------------------------------------------- C11
AllSites ==
  { SiteLinkedIn, SiteIndeed, SiteZipRecruiter, SiteGlassdoor, SiteGoogle, SiteBayt,
    SiteNaukri, SiteBDJobs }

\* the site a lower-cased name stands for: the site of that name, and
\* zip_recruiter for "ziprecruiter"
NamedSite(l) == IF l = <<"z","i","p","r","e","c","r","u","i","t","e","r">> THEN SiteZipRecruiter ELSE CHOOSE site \in AllSites : site = l

\* C11: MapStringToSite maps a name, whatever its case, onto the site it
\* names ("ziprecruiter" being zip_recruiter) and returns an error for every
\* other string, the empty one included; parseSites on a list of names fails
\* with the first unrecognized name when there is one and otherwise returns
\* the sites of the names in the order of the list.
C11_SiteMapping ==
  /\ call.fn = "MapStringToSite" =>
       LET l == ToLower(call.arg) IN
       /\ IF l \in KnownSiteNames
          THEN call.out.err = NoErr /\ call.out.site = NamedSite(l)
          ELSE call.out.err = <<"unknown site: ", call.arg>> /\ call.out.site = <<>>
       /\ MapStringToSite(ToUpper(call.arg)).site = call.out.site
       /\ call.arg = <<>> => call.out.err # NoErr
  /\ call.fn = "parseSites" =>
       LET names == call.arg
           unknown == {k \in DOMAIN names : IsUnknownName(names[k])}
       IN IF unknown # {}
          THEN /\ call.out.sites = <<>>
               /\ \E k \in unknown :
                    /\ \A j \in unknown : k <= j
                    /\ call.out.err = <<"unknown site: ", names[k]>>
          ELSE /\ call.out.err = NoErr
               /\ call.out.sites = [k \in DOMAIN names |-> NamedSite(ToLower(names[k]))]

C11_Witness ==
  /\ call.fn = "parseSites"
  /\ call.arg = <<<<"z","i","p","R","e","c","r","u","i","t","e","r">>, <<"I","n","d","e","e","d">>, <<"L","I","N","K","E","D","I","N">>>>
  /\ call.out.err = NoErr
  /\ call.out.sites = <<SiteZipRecruiter, SiteIndeed, SiteLinkedIn>>

\* -------------------------------------------------------------------- C12
\* the names and aliases of each country, lower-cased
CountryAliases ==
  { <<<<"u","s","a">>, CountryUSA>>, <<<<"u","s">>, CountryUSA>>, <<<<"u","n","i","t","e","d"," ","s","t","a","t","e","s">>, CountryUSA>>,
    <<<<"c","a","n","a","d","a">>, CountryCanada>>, <<<<"c","a">>, CountryCanada>>,
    <<<<"u","k">>, CountryUK>>, <<<<"u","n","i","t","e","d"," ","k","i","n","g","d","o","m">>, CountryUK>>, <<<<"g","b">>, CountryUK>>,
    <<<<"g","e","r","m","a","n","y">>, CountryGermany>>, <<<<"d","e">>, CountryGermany>>,
    <<<<"f","r","a","n","c","e">>, CountryFrance>>, <<<<"f","r">>, CountryFrance>> }

IsCountryName(s) == \E a \in CountryAliases : a[1] = ToLower(s)

NamedCountry(s) == (CHOOSE a \in CountryAliases : a[1] = ToLower(s))[2]

ResolutionFails == HasUnknownName \/ UnsupportedType

\* C12: the country of the ScraperInput is the country the given string
\* names or is an alias of, whatever its case, and unset (nil) for every
\* other string, the empty one included; no country string makes ScrapeJobs
\* return an error or keeps it from running its adapters, and with the
\* country unset Scrape works on the default domain.
C12_CountryNeverAborts ==
  /\ ~IsNil(scraperInput) =>
       Deref(scraperInput).Country =
         IF IsCountryName(input.CountryIndeed) THEN Some(NamedCountry(input.CountryIndeed))
         ELSE Nil
  /\ \A i \in DOMAIN tasks :
       IsNil(Deref(scraperInput).Country) => tasks[i].domain = "www"
  /\ (Returned /\ ~ResolutionFails) =>
       /\ constructed
       /\ RetErr = NoErr
       /\ ~IsNil(Deref(ret).resp)

C12_Witness ==
  /\ Returned
  /\ input.CountryIndeed = <<"m","a","r","s">>
  /\ IsNil(Deref(scraperInput).Country)
  /\ Len(tasks) = 1
  /\ tasks[1].domain = "www"
  /\ RetErr = NoErr
  /\ Len(RetJobs) >= 2

\* -------------------------------------------------------------------- C13
\* the present parts among city, state and country token, in that order,
\* with ", " between them
Rendering(l, Token(_)) ==
  LET c == ~IsNil(l.City)
      s == ~IsNil(l.State)
      k == ~IsNil(l.Country)
      sep == <<","," ">>
  IN CASE c /\ s /\ k -> Deref(l.City) \o sep \o Deref(l.State) \o sep \o Token(Deref(l.Country))
       [] c /\ s /\ ~k -> Deref(l.City) \o sep \o Deref(l.State)
       [] c /\ ~s /\ k -> Deref(l.City) \o sep \o Token(Deref(l.Country))
       [] c /\ ~s /\ ~k -> Deref(l.City)
       [] ~c /\ s /\ k -> Deref(l.State) \o sep \o Token(Deref(l.Country))
       [] ~c /\ s /\ ~k -> Deref(l.State)
       [] ~c /\ ~s /\ k -> Token(Deref(l.Country))
       [] OTHER -> <<>>

\* the country token as stated: upper case for a two-letter code and for
\* usa, title case otherwise
TwoLetterToken(c) == IF Len(c) = 2 \/ c = <<"u","s","a">> THEN ToUpper(c) ELSE Title(c)

\* the country token as amended: upper case for usa and uk only
UsaUkToken(c) == IF c \in {<<"u","s","a">>, <<"u","k">>} THEN ToUpper(c) ELSE Title(c)

HasDigit(s) == \E k \in DOMAIN s : IsDigit(s[k])

\* the numeric tokens of a salary text: the matches that hold a digit
NumericTokens(text) == SelectSeq(FindAllAmounts(text, 1), HasDigit)

TokenValue(token) == ParseFloat(RemoveCommas(token)).value

\* the interval a salary text states
StatedInterval(text) ==
  LET l == ToLower(text) IN
  CASE Contains(l, <<"y","e","a","r">>) \/ Contains(l, <<"a","n","n","u","a","l">>) -> Some(IntervalYearly)
    [] ~(Contains(l, <<"y","e","a","r">>) \/ Contains(l, <<"a","n","n","u","a","l">>)) /\ Contains(l, <<"h","o","u","r">>)
         -> Some(IntervalHourly)
    [] ~(Contains(l, <<"y","e","a","r">>) \/ Contains(l, <<"a","n","n","u","a","l">>)) /\ ~Contains(l, <<"h","o","u","r">>)
       /\ Contains(l, <<"m","o","n","t","h">>) -> Some(IntervalMonthly)
    [] OTHER -> Nil

\* C14: parseSalary returns no compensation for a text without a numeric
\* token; with one token min and max are its value; with two or more, min is
\* the first and max the second; the interval is yearly for "year" or
\* "annual", else hourly for "hour", else monthly for "month", else unset;
\* the currency is USD exactly when a numeric amount was found.
C14_CompensationParsing ==
  call.fn = "parseSalary" =>
    LET tokens == NumericTokens(call.arg) IN
    /\ Len(tokens) = 0 => IsNil(call.out)
    /\ Len(tokens) >= 1 =>
         /\ ~IsNil(call.out)
         /\ Deref(call.out).Currency = Some("USD")
         /\ Deref(call.out).MinAmount = Some(TokenValue(tokens[1]))
         /\ Deref(call.out).MaxAmount =
              Some(TokenValue(tokens[IF Len(tokens) = 1 THEN 1 ELSE 2]))
         /\ Deref(call.out).Interval = StatedInterval(call.arg)

\* -------------------------------------------------------------------- C15
\* text[p..q] is an email address: a local part, "@", a domain, ".", and two
\* or more letters
IsEmailAt(text, p, q) ==
  \E a \in (p + 1)..(q - 4) :
    /\ text[a] = "@"
    /\ \A k \in p..(a - 1) : LocalClass(text[k])
    /\ \E d \in (a + 2)..(q - 2) :
         /\ text[d] = "."
         /\ \A k \in (a + 1)..(d - 1) : DomainClass(text[k])
         /\ \A k \in (d + 1)..q : IsAsciiLetter(text[k])

EmailEnds(text, p) == {q \in (p + 5)..Len(text) : IsEmailAt(text, p, q)}

\* the email addresses of a text from position i on, read from left to
\* right: the first position where one starts, the longest one that starts
\* there, and so on after its end
RECURSIVE LeftmostEmails(_, _)
LeftmostEmails(text, i) ==
  LET starts == {p \in i..Len(text) : EmailEnds(text, p) # {}} IN
  IF starts = {} THEN <<>>
  ELSE LET p == CHOOSE x \in starts : \A y \in starts : x <= y
           q == CHOOSE x \in EmailEnds(text, p) : \A y \in EmailEnds(text, p) : y <= x
       IN <<SubSeq(text, p, q)>> \o LeftmostEmails(text, q + 1)

\* C15: ExtractEmailsFromText returns the email addresses of the text in the
\* order in which they appear, an address that appears twice being returned
\* twice, and returns nil, never an empty list that is not nil, when the
\* text is empty or holds no address.
C15_EmailExtraction ==
  call.fn = "ExtractEmailsFromText" =>
    /\ call.out.elems = LeftmostEmails(call.arg, 1)
    /\ \A k \in DOMAIN call.out.elems :
         IsEmailAt(call.out.elems[k], 1, Len(call.out.elems[k]))
    /\ call.out.isNil <=> ~\E p \in DOMAIN call.arg : EmailEnds(call.arg, p) # {}
    /\ call.arg = <<>> => call.out.isNil
    /\ ~call.out.isNil => call.out.elems # <<>>

C15_Witness ==
  /\ call.fn = "ExtractEmailsFromText"
  /\ call.arg = <<"h","r","@","b",".","i","o"," ","h","r","@","b",".","i","o"," ","a","@","b",".","c","c">>
  /\ ~call.out.isNil
  /\ call.out.elems = <<<<"h","r","@","b",".","i","o">>, <<"h","r","@","b",".","i","o">>, <<"a","@","b",".","c","c">>>>

\* -------------------------------------------------------------------- C16
\* the markers as stated, in the order in which they are checked
StatedMarkers ==
  << [type |-> JobTypeFullTime, markers |-> {<<"f","u","l","l","-","t","i","m","e">>, <<"f","u","l","l","t","i","m","e">>}],
     [type |-> JobTypePartTime, markers |-> {<<"p","a","r","t","-","t","i","m","e">>, <<"p","a","r","t","t","i","m","e">>}],
     [type |-> JobTypeContract, markers |-> {<<"c","o","n","t","r","a","c","t">>}],
     [type |-> JobTypeTemporary, markers |-> {<<"t","e","m","p","o","r","a","r","y">>}],
     [type |-> JobTypeInternship, markers |-> {<<"i","n","t","e","r","n","s","h","i","p">>}] >>

\* the markers as amended: three more, in Portuguese, German and Spanish
AmendedMarkers ==
  << [type |-> JobTypeFullTime,
      markers |-> {<<"f","u","l","l","-","t","i","m","e">>, <<"f","u","l","l","t","i","m","e">>, <<"p","e","r","i-acute","o","d","o","i","n","t","e","g","r","a","l">>}],
     [type |-> JobTypePartTime, markers |-> {<<"p","a","r","t","-","t","i","m","e">>, <<"p","a","r","t","t","i","m","e">>, <<"t","e","i","l","z","e","i","t">>}],
     [type |-> JobTypeContract, markers |-> {<<"c","o","n","t","r","a","c","t">>}],
     [type |-> JobTypeTemporary, markers |-> {<<"t","e","m","p","o","r","a","r","y">>}],
     [type |-> JobTypeInternship, markers |-> {<<"i","n","t","e","r","n","s","h","i","p">>, <<"p","r","a-acute","c","t","i","c","a","s">>}] >>

\* the type of the first entry of the table one of whose markers l contains
FirstMarked(l, table) ==
  LET hits == {k \in DOMAIN table : \E m \in table[k].markers : Contains(l, m)} IN
  IF hits = {} THEN Nil
  ELSE Some(table[CHOOSE k \in hits : \A j \in hits : k <= j].type)

\* C16 as stated: JobTypeFromString returns, whatever the case of the
\* string, the type of the first of full-time/fulltime, part-time/parttime,
\* contract, temporary, internship that the string contains, and nil when it
\* contains none of them.
C16_JobTypeMarkers_Original ==
  call.fn = "JobTypeFromString" => call.out = FirstMarked(ToLower(call.arg), StatedMarkers)

\* C16 amended: JobTypeFromString returns, whatever the case of the string,
\* the type of the first marker group the string contains, the groups being
\* checked in the order full-time (full-time, fulltime, periodointegral),
\* part-time (part-time, parttime, teilzeit), contract, temporary,
\* internship (internship, practicas), and nil when it contains no marker,
\* as for the empty string.
C16_JobTypeMarkers ==
  call.fn = "JobTypeFromString" =>
    /\ call.out = FirstMarked(ToLower(call.arg), AmendedMarkers)
    /\ JobTypeFromString(ToUpper(call.arg)) = call.out
    /\ call.arg = <<>> => IsNil(call.out)

C16_Witness ==
  /\ call.fn = "JobTypeFromString"
  /\ call.arg = <<"C","o","n","t","r","a","c","t","o","r"," ","t","e","i","l","z","e","i","t">>
  /\ call.out = Some(JobTypePartTime)

\* -------------------------------------------------------------------- C17
\* the step in which goroutine i gets a page without error
PageArrives(i) ==
  /\ tasks[i].pc = "wait"
  /\ tasks'[i] # tasks[i]
  /\ IsNil(tasks'[i].err)

\* C17: when a page has been fetched, the walk ends without error if the
\* accumulated count has reached resultsWanted + offset, or the page gave no
\* new posting, or the page gave no next cursor; it goes on to the next
\* request if none of the three holds, and only then.
C17_TerminalConditions ==
  [][ \A i \in DOMAIN tasks :
        PageArrives(i) =>
          LET new == Len(tasks'[i].allJobs) - Len(tasks[i].allJobs)
              enough == Len(tasks'[i].allJobs) >= Wanted + Skip
              noCursor == tasks'[i].cursor = ""
              terminal == enough \/ new = 0 \/ noCursor
              ended == tasks'[i].pc = "ret" /\ ~IsNil(tasks'[i].result)
              goesOn == /\ tasks'[i].pc \in {"wait", "req"}
                        /\ IsNil(tasks'[i].result)
                        /\ tasks'[i].pc = "wait" => httpCount' = httpCount + 1
          IN /\ terminal => ended
             /\ ~terminal => goesOn
             /\ new = 0 => tasks'[i].page = tasks[i].page
             /\ new > 0 => tasks'[i].page = tasks[i].page + 1 ]_vars

C17_Witness ==
  \E i \in DOMAIN tasks :
    /\ ScrapeReturned(i)
    /\ tasks[i].page = 3
    /\ tasks[i].cursor = "10"
    /\ Wanted = 2
    /\ Skip = 1
    /\ Len(tasks[i].allJobs) = 3

\* -------------------------------------------------------------------- C18
\* C18: the walk ends after a bounded number of page fetches: every fetch
\* either gives a posting that was not seen before or is the last of its
\* walk, so the requests of a run are at most the postings of the source plus
\* one per walk, whatever cursor the pages give; and every run comes to its
\* end.
C18_WalkTerminates ==
  /\ [](httpCount <= Cardinality(seenURLs) + Len(tasks) /\ Cardinality(seenURLs) <= NumJobs)
  /\ <>(opc = "crashed" \/ (Returned /\ \A i \in DOMAIN tasks : tasks[i].pc = "done"))

\* a walk that met the same cursor again and ended on a page without any new
\* posting
C18_Witness ==
  \E i \in DOMAIN tasks :
    /\ ScrapeReturned(i)
    /\ tasks[i].page = 3
    /\ tasks[i].cursor = "10"
    /\ Len(tasks[i].allJobs) < Wanted + Skip
    /\ httpCount = 3

\* -------------------------------------------------------------------- C19
\* C19: a goroutine whose Scrape met a hard failure at page k holds one
\* error, for page k, and no result; it is at its return or past it, so it
\* has no request under way in any later state; its error is delivered once;
\* and none of the postings it had accumulated is in what ScrapeJobs returns.
C19_HardFailureAborts ==
  /\ \A i \in FailedTasks :
       /\ tasks[i].pc \in {"ret", "done"}
       /\ IsNil(tasks[i].result)
       /\ Deref(tasks[i].err).page = tasks[i].page
       /\ Deref(tasks[i].err).cause \in {"transport", "status", "parse"}
       /\ Len(tasks[i].allJobs) >= tasks[i].page - 1
       /\ RanAdapters => Range(tasks[i].allJobs) \cap Range(RetJobs) = {}
  /\ Len(errorsChan) + Len(loggedErrors) =
       Cardinality({i \in FailedTasks : tasks[i].pc = "done"})
  /\ httpCount >= Cardinality({i \in DOMAIN tasks : tasks[i].pc = "wait"})

C19_Witness ==
  \E i \in FailedTasks :
    /\ RanAdapters
    /\ tasks[i].page = 2
    /\ Len(tasks[i].allJobs) = 2
    /\ Deref(tasks[i].err).cause = "parse"
    /\ RetJobs = <<>>
    /\ httpCount = 2

\* -------------------------------------------------------------------- C20
RECURSIVE TotalOf(_, _)
TotalOf(f, S) ==
  IF S = {} THEN 0
  ELSE LET x == CHOOSE y \in S : TRUE IN f[x] + TotalOf(f, S \ {x})

\* the calls of ProxyRotator.Next that have picked their proxy
NextCalls == TotalOf(handed, DOMAIN handed)

\* how often m calls made one after the other return proxy p
SequentialShare(proxies, m, p) ==
  Cardinality({k \in 0..(m - 1) : proxies[(k % Len(proxies)) + 1] = p})

\* C20: the rotator is safe under concurrent use: its position stays within
\* 0..n-1; once the m calls of Next made so far are over, the position is
\* m mod n; and the proxies handed out are, counted with their repeats, the
\* ones m calls made one after the other hand out.
C20_RotatorSafeUnderConcurrency ==
  ~IsNil(rotator) =>
    LET proxies == Deref(rotator).proxies
        n == Len(proxies)
    IN /\ Deref(rotator).current \in 0..(n - 1)
       /\ (\A i \in DOMAIN tasks : tasks[i].pc # "adv") =>
            Deref(rotator).current = NextCalls % n
       /\ \A p \in DOMAIN handed : handed[p] = SequentialShare(proxies, NextCalls, p)

\* ---------------------------------------------------------------------- C21
\* the proxy the k-th request of a client should go through
RoundRobin(proxies, k) == Some(proxies[((k - 1) % Len(proxies)) + 1])

\* the client under test was built with a non-empty list of proxies that parse
ProxiedClient ==
  /\ call.fn \in {"NewHTTPClient", "Get", "Post"}
  /\ ~IsNil(rotator)
  /\ \A p \in Range(call.arg) : UrlParses(p)

\* C21: an HTTP client built with a non-empty proxy list sends its k-th
\* request, a Get or a Post, through proxies[(k-1) mod n]
C21_RoundRobinRequests ==
  ProxiedClient =>
    \A k \in DOMAIN sent : sent[k].via = RoundRobin(Deref(rotator).proxies, k)

\* ---------------------------------------------------------------------- C30
\* C30: for calls of Next one after the other the index stays in 0..n-1 and
\* call number i (from 0) returns proxies[i mod n]; on an empty list Next
\* returns "" and leaves the index as it was
C30_RotatorSequential ==
  call.fn \in {"NewProxyRotator", "Next"} =>
    LET pr == Deref(rotator)
        n == Len(pr.proxies)
    IN /\ n > 0 => pr.current \in 0..(n - 1)
       /\ call.fn = "Next" /\ n > 0 =>
            /\ call.out = pr.proxies[(call.arg % n) + 1]
            /\ pr.current = (call.arg + 1) % n
       /\ n = 0 => pr.current = 0 /\ (call.fn = "Next" => call.out = <<>>)

\* the index has wrapped around: the third call on a list of two proxies
\* returned the first one again
C30_Witness ==
  /\ call.fn = "Next"
  /\ call.arg = 2
  /\ Len(Deref(rotator).proxies) = 2
  /\ Deref(rotator).proxies[1] # Deref(rotator).proxies[2]
  /\ call.out = Deref(rotator).proxies[1]

\* -------------------------------------------------------------------- C22
\* the Scrape call of goroutine i is under way
Active(i) == tasks[i].pc \in {"req", "adv", "wait"}

\* goroutines i and j run the same entry of the scrapers map
SameAdapter(i, j) == sites[tasks[i].idx] = sites[tasks[j].idx]

\* C22: whatever site list was requested, the dedup set and the accumulation
\* buffer of an adapter are used by at most one goroutine at a time: no two
\* Scrape calls on the same adapter are under way at once, and the run is
\* never stopped by concurrent writes to the dedup set
C22_ExclusiveAdapterState ==
  /\ opc # "crashed"
  /\ \A i, j \in DOMAIN tasks : (i # j /\ SameAdapter(i, j)) => ~(Active(i) /\ Active(j))

\* -------------------------------------------------------------------- C23
\* C23: the set of seen URLs a Scrape call works with is that of its own run:
\* while the call is under way the set holds exactly the postings this call
\* has accumulated, so it is empty when the call starts
C23_DedupScopedToRun ==
  \A i \in DOMAIN tasks : Active(i) => seenURLs = Range(tasks[i].allJobs)

\* -------------------------------------------------------------------- C25
\* the step in which goroutine i, having got a page, goes on to the next one
NextPageRequested(i) ==
  /\ tasks[i].pc = "wait"
  /\ tasks'[i] # tasks[i]
  /\ tasks'[i].pc \in {"req", "wait"}

InFlightTogether(i, j) ==
  i # j /\ SameAdapter(i, j) /\ tasks[i].pc = "wait" /\ tasks[j].pc = "wait"

C27_QueryNeverMutated ==
  [][ ~IsNil(scraperInput) => scraperInput' = scraperInput ]_vars

\* one goroutine has walked two pages of a query with an offset
C27_Witness ==
  /\ ~IsNil(scraperInput)
  /\ Skip = 1
  /\ \E i \in DOMAIN tasks : tasks[i].pc = "done" /\ tasks[i].page = 3

\* -------------------------------------------------------------------- C28
\* the goroutines that have sent their message
Done == {i \in DOMAIN tasks : tasks[i].pc = "done"}

\* how often goroutine i occurs in the order of sends
Sends(i) == Cardinality({k \in DOMAIN delivered : delivered[k] = i})

\* C28: every goroutine sends one message, a result or an error, on channels
\* that hold len(sites) messages, so a goroutine at its send always finds
\* room; wg counts the goroutines that have not sent; the channels are closed
\* only after every send; and every run comes to its return (or is stopped
\* by the runtime).
C28_FanOutCompletes ==
  /\ [](/\ \A i \in DOMAIN tasks : Sends(i) = (IF i \in Done THEN 1 ELSE 0)
        /\ wg = Len(tasks) - Cardinality(Done)
        /\ opc \in {"launch", "collect"} =>
             /\ Len(resultsChan) = Cardinality(Done \ FailedTasks)
             /\ Len(errorsChan) = Cardinality(Done \cap FailedTasks)
        /\ Len(resultsChan) + Len(errorsChan) <= Len(sites)
        /\ \A i \in DOMAIN tasks :
             tasks[i].pc = "ret" =>
               /\ IsNil(tasks[i].err) # IsNil(tasks[i].result)
               /\ Len(resultsChan) < Len(sites)
               /\ Len(errorsChan) < Len(sites)
        /\ closed => li > Len(sites) /\ Done = DOMAIN tasks)
  /\ <>(opc \in {"returned", "crashed"})

\* two goroutines, one with a result and one with an error, have sent and
\* ScrapeJobs has returned
C28_Witness ==
  /\ Returned
  /\ closed
  /\ Len(tasks) = 2
  /\ Cardinality(FailedTasks) = 1
  /\ Cardinality(SucceededTasks) = 1

\* -------------------------------------------------------------------- C29
\* C29: the list one Scrape call returns has at most ResultsWanted postings
\* and no two of them have the same job URL, whatever pages the source gave
C29_BoundedDistinctResult ==
  \A i \in SucceededTasks :
    /\ Len(ResultOf(i)) <= Wanted
    /\ \A a, b \in DOMAIN ResultOf(i) : a # b => ResultOf(i)[a] # ResultOf(i)[b]

\* a walk that took two postings from its one page returned only the one that
\* was wanted
C29_Witness ==
  \E i \in SucceededTasks :
    /\ Wanted = 1
    /\ Skip = 0
    /\ Len(tasks[i].allJobs) = 2
    /\ tasks[i].page = 2
    /\ Len(ResultOf(i)) = 1

\* -------------------------------------------------------------------- C24
\* the items of a page that are not in seen, each at its first occurrence
FirstOccurrences(items, seen) ==
  LET keep == {k \in DOMAIN items :
                 items[k] \notin seen /\ \A j \in 1..(k - 1) : items[j] # items[k]}
      pos == [n \in 1..Cardinality(keep) |->
                CHOOSE k \in keep : Cardinality({j \in keep : j < k}) = n - 1]
  IN [n \in 1..Cardinality(keep) |-> items[pos[n]]]

\* C24: a page fed to the dedup filter a second time adds nothing: the first
\* pass gives the first occurrences of the items not seen before, in page
\* order, the second pass gives none and leaves the set as it was
C24_DedupIdempotent ==
  call.fn = "dedup" =>
    /\ call.out.first = FirstOccurrences(call.arg.items, call.arg.seen)
    /\ call.out.second = <<>>
    /\ call.out.first \o call.out.second = call.out.first
    /\ call.out.seen2 = call.out.seen1

\* a page with one posting twice and one posting seen on an earlier page
C24_Witness ==
  /\ call.fn = "dedup"
  /\ call.arg.seen = {2}
  /\ call.arg.items = <<1, 1>>
  /\ call.out.first = <<1>>
  /\ call.out.second = <<>>

\* -------------------------------------------------------------------- C26
\* the card has a job key attribute and a title with a character that is not
\* white space
Emittable(card) ==
  /\ ~IsNil(card.jk)
  /\ \E k \in DOMAIN TitleText(card) : TitleText(card)[k] \notin {" ", "\n", "\t"}

====
